---- MODULE Spec2Model ----
(***************************************************************************)
(* The lemon.markets WebSocket stream client.                              *)
(*                                                                         *)
(* Two generations of the stream live in the repository:                   *)
(*   - the reconnecting stream (src/README.md lines 520-864): a watchdog   *)
(*     goroutine redials after a failure, state is tracked in lms.state;   *)
(*   - the plain stream (src/lemon.go): the constructor returns the dial   *)
(*     error, no reconnect.  Its definitions carry the prefix plain_.      *)
(*                                                                         *)
(* Goroutines are modelled as processes with a program counter.  A step is *)
(* one access to shared state (a field of the stream, a channel, the       *)
(* connection) together with the local computation around it.  The fields  *)
(* are not guarded by any lock in the source, so steps of different        *)
(* goroutines interleave freely.                                           *)
(***************************************************************************)
EXTENDS Naturals, FiniteSets, Sequences, TLC

\* ------------------------------------------------------------------ bounds
\* Number of connections the remote end accepts in one behaviour.
MaxConns == 2

\* ------------------------------------------------------- program constants
State_init == "initalizing"
State_connecting == "connecting"
State_connected == "connected"
State_disconnected == "disconnected"
State_waiting_to_reconnect == "waiting to reconnect"

ErrConnectFailed == "Can't connect to lemon markets"
ErrConnectionClosed == "Lemon markets connection closed"
ErrUnknownISIN == "Invalid ISIN"
ErrInvalidRequest == "Invalid request detected"
\* error values that are not package variables: json.Unmarshal's error and
\* the error value ReadMessage returned
DecodeError == "json decode error"
TransportError == "transport error"

\* websocket close codes named in listen
CloseNormalClosure == 1000
CloseGoingAway == 1001
CloseAbnormalClosure == 1006
\* a close code listen does not name
CloseInternalServerErr == 1011

\* capacity of reconnectNotifier: make(chan uint, 1)
NotifierCap == 1
\* connect: if lms.failedReconnects <= 5 { lms.failedReconnects++ }
FailedReconnectsLimit == 5

\* The instruments the caller may name.
Isins == {"DE000TUAG000", "US88160R1014"}

\* nil connection handle
NilConn == 0
Conns == 1 .. MaxConns

\* Payloads a connection can deliver.  A payload is what the classification
\* looks at: whether it contains either marker text and whether it is JSON
\* that unmarshals into the stream's update type.
Payloads == [unknown : BOOLEAN, invalid : BOOLEAN, wellFormed : BOOLEAN]

\* Errors ReadMessage can return: a close frame with a code, or any other
\* error (close = FALSE).
ReadErrors ==
    {[close |-> TRUE, code |-> c] :
        c \in {CloseNormalClosure, CloseGoingAway, CloseAbnormalClosure,
               CloseInternalServerErr}}
    \cup {[close |-> FALSE, code |-> 0]}

\* The two goroutines that run connect(): the caller (inside the
\* constructor) and the reconnect watchdog.
Caller == "caller"
Watchdog == "watchdog"
Connectors == {Caller, Watchdog}

VARIABLES
    state,             \* lms.state
    processData,       \* lms.processData
    subscriptions,     \* lms.subscriptions (the keys of the map)
    connection,        \* lms.connection: NilConn or a connection
    failedReconnects,  \* lms.failedReconnects
    notifierLen,       \* number of values buffered in lms.reconnectNotifier
    notifierClosed,    \* whether lms.reconnectNotifier has been closed
    rawMessages,       \* whether lms.rawMessages is non-nil
    connStatus,        \* per connection: "unused", "open", "closed" (by Close()), "dropped" (by the peer or network)
    pc,                \* position of the caller and of the watchdog
    arg,               \* the argument of the caller's running call: the isin of Subscribe/Unsubscribe, the time passed to isExchangeOpen
    replayStart,       \* per connector: the registry when its dial succeeded and its replay loop started
    replayed,          \* per connector: the isins its replay loop has produced
    lpc,               \* position of each listen goroutine (one is started per successful dial)
    lconn,             \* the connection a listen goroutine is blocked reading
    lval,              \* a listen goroutine's locals: the error to emit (err), the read error it comes from (close, code), the markers the payload msg contains (unknown, invalid), whether it unmarshals (wellFormed)
    consumer,          \* whether the caller's consumer is receiving from the sinks
    panicked,          \* "none", or the runtime failure that ended the program
    wanted,            \* history: isins the caller subscribed and has not unsubscribed since
    discDone,          \* history: a Disconnect() call has returned
    result             \* what the caller's call returned: the plain stream's constructor, isExchangeOpen

vars == <<state, processData, subscriptions, connection, failedReconnects,
          notifierLen, notifierClosed, rawMessages, connStatus, pc, arg,
          replayStart, replayed, lpc, lconn, lval, consumer,
          panicked, wanted, discDone, result>>

streamVars == <<state, processData, subscriptions, connection, failedReconnects,
                notifierLen, notifierClosed, rawMessages>>
replayVars == <<replayStart, replayed>>
listenVars == <<lpc, lconn, lval>>

Running == panicked = "none"

\* The connection a successful dial returns: a fresh one.
FreshConns == {c \in Conns : connStatus[c] = "unused"}
NewConn == CHOOSE c \in FreshConns : \A d \in FreshConns : c <= d

\* ----------------------------------------------------------------- codec
isUnknownISIN(message) == message.unknown
isInvalidRequest(message) == message.invalid
\* json.Unmarshal into the stream's own update type
Unmarshal(message) == IF message.wellFormed THEN "" ELSE DecodeError
\* websocket.IsCloseError(err, codes...)
IsCloseError(err, codes) == err.close /\ err.code \in codes


\* -------------------------------------------------------------- the start
NoVal == [err |-> "", wellFormed |-> FALSE, close |-> FALSE, code |-> 0,
          unknown |-> FALSE, invalid |-> FALSE]

\* stream.init(): state, empty registry, notifier of capacity 1, counter 0,
\* and the reconnect watchdog started (waiting on the notifier).
init ==
    /\ state = State_init
    /\ subscriptions = {}
    /\ notifierLen = 0
    /\ notifierClosed = FALSE
    /\ failedReconnects = 0
    /\ pc = [p \in Connectors |-> IF p = Caller THEN "new" ELSE "recv"]

Init ==
    /\ init
    /\ processData = FALSE
    /\ connection = NilConn
    /\ rawMessages = FALSE
    /\ connStatus = [c \in Conns |-> "unused"]
    /\ arg = ""
    /\ replayStart = [p \in Connectors |-> {}]
    /\ replayed = [p \in Connectors |-> {}]
    /\ lpc = [c \in Conns |-> "unborn"]
    /\ lconn = [c \in Conns |-> NilConn]
    /\ lval = [c \in Conns |-> NoVal]
    /\ consumer \in BOOLEAN
    /\ panicked = "none"
    /\ wanted = {}
    /\ discDone = FALSE
    /\ result = ""

\* --------------------------------------------------------- the constructor
\* NewTickStream / NewQuoteStream after init(): state = connecting, then
\* connect().
NewTickStream ==
    /\ Running
    /\ pc[Caller] = "new"
    /\ state' = State_connecting
    /\ pc' = [pc EXCEPT ![Caller] = "dial"]
    /\ UNCHANGED <<processData, subscriptions, connection, failedReconnects,
                   notifierLen, notifierClosed, rawMessages, connStatus, arg,
                   replayVars, listenVars, consumer, panicked, wanted,
                   discDone, result>>

\* ------------------------------------------------------------- connect()
\* Where connect() returns to: the constructor returns to the caller, the
\* watchdog goes back to its range over the notifier.
Return(p) == IF p = Caller THEN "idle" ELSE "recv"

\* The dial fails.
connect_dialFail(p) ==
    /\ Running
    /\ pc[p] = "dial"
    /\ pc' = [pc EXCEPT ![p] = "c_sendErr"]
    /\ UNCHANGED <<streamVars, connStatus, arg, replayVars, listenVars,
                   consumer, panicked, wanted, discDone, result>>

\* C14 mutant: the counter falls back once it has passed 1.
countFailure_fallsBack(n) == IF n >= 2 THEN 1 ELSE n + 1

\* The counter after a failed dial.
countFailure(n) == IF n <= FailedReconnectsLimit THEN n + 1 ELSE n

\* lms.errorChannel <- ErrConnectFailed (blocks until the consumer takes
\* it), then the counter.
connect_sendErr(p) ==
    /\ Running
    /\ pc[p] = "c_sendErr"
    /\ consumer
    /\ failedReconnects' = countFailure(failedReconnects)
    /\ pc' = [pc EXCEPT ![p] = "c_notify"]
    /\ UNCHANGED <<state, processData, subscriptions, connection, notifierLen,
                   notifierClosed, rawMessages, connStatus, arg, replayVars,
                   listenVars, consumer, panicked, wanted, discDone, result>>

\* A send on reconnectNotifier: panics when the channel is closed, blocks
\* while the buffer is full.
NotifierSendEnabled == notifierClosed \/ notifierLen < NotifierCap
NotifierSend ==
    IF notifierClosed
    THEN /\ panicked' = "send on closed channel"
         /\ notifierLen' = notifierLen
    ELSE /\ panicked' = panicked
         /\ notifierLen' = notifierLen + 1

\* lms.reconnectNotifier <- 1 after a failed dial.
connect_notify(p) ==
    /\ Running
    /\ pc[p] = "c_notify"
    /\ NotifierSendEnabled
    /\ NotifierSend
    /\ pc' = [pc EXCEPT ![p] = IF notifierClosed THEN pc[p] ELSE Return(p)]
    /\ UNCHANGED <<state, processData, subscriptions, connection,
                   failedReconnects, notifierClosed, rawMessages, connStatus,
                   arg, replayVars, listenVars, consumer, wanted, discDone,
                   result>>

\* A connection for which no listen goroutine has been started yet.
Unborn == {c \in Conns : lpc[c] = "unborn"}
NewListener == CHOOSE c \in Unborn : \A d \in Unborn : c <= d

\* C5 mutant: connect() makes a new registry map on every successful dial,
\* as the plain stream's connect does.
connect_dialOk_newRegistry(p) ==
    /\ Running
    /\ pc[p] = "dial"
    /\ FreshConns # {}
    /\ connection' = NewConn
    /\ connStatus' = [connStatus EXCEPT ![NewConn] = "open"]
    /\ processData' = TRUE
    /\ failedReconnects' = 0
    /\ state' = State_connected
    /\ lpc' = [lpc EXCEPT ![NewListener] = "loop"]
    /\ subscriptions' = {}
    /\ replayStart' = [replayStart EXCEPT ![p] = {}]
    /\ replayed' = [replayed EXCEPT ![p] = {}]
    /\ pc' = [pc EXCEPT ![p] = "c_replay"]
    /\ UNCHANGED <<notifierLen, notifierClosed, rawMessages, arg, lconn, lval,
                   consumer, panicked, wanted, discDone, result>>

\* The dial succeeds: connection, processData = true, failedReconnects = 0,
\* state = connected, go lms.listen(), and the replay loop starts its range
\* over the registry.
connect_dialOk(p) ==
    /\ Running
    /\ pc[p] = "dial"
    /\ FreshConns # {}
    /\ connection' = NewConn
    /\ connStatus' = [connStatus EXCEPT ![NewConn] = "open"]
    /\ processData' = TRUE
    /\ failedReconnects' = 0
    /\ state' = State_connected
    /\ lpc' = [lpc EXCEPT ![NewListener] = "loop"]
    /\ replayStart' = [replayStart EXCEPT ![p] = subscriptions]
    /\ replayed' = [replayed EXCEPT ![p] = {}]
    /\ pc' = [pc EXCEPT ![p] = "c_replay"]
    /\ UNCHANGED <<subscriptions, notifierLen, notifierClosed, rawMessages,
                   arg, lconn, lval, consumer, panicked, wanted, discDone,
                   result>>

\* The isins the range over the registry may still produce: keys present
\* now that it has not produced.
ReplayCandidates(p) == subscriptions \ replayed[p]
\* The isins it must still produce: of those, the keys that were present
\* when the range started (a key added during the range may be skipped).
ReplayDue(p) == ReplayCandidates(p) \cap replayStart[p]

\* One iteration of the replay loop: sendSubscription(getSubscription(isin))
\* on whatever lms.connection is now.
connect_replay(p) ==
    /\ Running
    /\ pc[p] = "c_replay"
    /\ \E isin \in ReplayCandidates(p) :
        /\ replayed' = [replayed EXCEPT ![p] = @ \cup {isin}]
    /\ UNCHANGED <<streamVars, connStatus, pc, arg, replayStart, listenVars,
                   consumer, panicked, wanted, discDone, result>>

\* The replay loop ends and connect() returns.
connect_return(p) ==
    /\ Running
    /\ pc[p] = "c_replay"
    /\ ReplayDue(p) = {}
    /\ pc' = [pc EXCEPT ![p] = Return(p)]
    /\ replayStart' = [replayStart EXCEPT ![p] = {}]
    /\ replayed' = [replayed EXCEPT ![p] = {}]
    /\ UNCHANGED <<streamVars, connStatus, arg, listenVars, consumer,
                   panicked, wanted, discDone, result>>

\* ------------------------------------------------------ reconnectWatchdog
\* for range stream.reconnectNotifier: a value is received;
\* state = waiting to reconnect; the sleep of failedReconnects minutes
\* begins.
reconnectWatchdog_recv ==
    /\ Running
    /\ pc[Watchdog] = "recv"
    /\ notifierLen > 0
    /\ notifierLen' = notifierLen - 1
    /\ state' = State_waiting_to_reconnect
    /\ pc' = [pc EXCEPT ![Watchdog] = "sleep"]
    /\ UNCHANGED <<processData, subscriptions, connection, failedReconnects,
                   notifierClosed, rawMessages, connStatus, arg, replayVars,
                   listenVars, consumer, panicked, wanted, discDone, result>>

\* The range ends: the notifier is closed and drained.
reconnectWatchdog_exit ==
    /\ Running
    /\ pc[Watchdog] = "recv"
    /\ notifierLen = 0
    /\ notifierClosed
    /\ pc' = [pc EXCEPT ![Watchdog] = "exited"]
    /\ UNCHANGED <<streamVars, connStatus, arg, replayVars, listenVars,
                   consumer, panicked, wanted, discDone, result>>

\* time.Sleep(time.Minute * time.Duration(stream.failedReconnects)): the
\* watchdog's wait, in minutes.
sleepDuration == failedReconnects

\* The sleep is over: state = connecting, then connect().
reconnectWatchdog_wake ==
    /\ Running
    /\ pc[Watchdog] = "sleep"
    /\ state' = State_connecting
    /\ pc' = [pc EXCEPT ![Watchdog] = "dial"]
    /\ UNCHANGED <<processData, subscriptions, connection, failedReconnects,
                   notifierLen, notifierClosed, rawMessages, connStatus, arg,
                   replayVars, listenVars, consumer, panicked, wanted,
                   discDone, result>>


\* -------------------------------------------------- the caller's operations
\* lms.connection.WriteJSON(...) by the caller: a nil connection handle is a
\* nil pointer dereference; a write on a dead connection returns an error
\* that the source drops.
callerWrite(action) ==
    IF connection = NilConn
    THEN /\ panicked' = "nil pointer dereference"
         /\ pc' = pc
    ELSE /\ panicked' = panicked
         /\ pc' = [pc EXCEPT ![Caller] = "idle"]

\* A map write while a range over the map is in progress in another
\* goroutine is a data race; the runtime may end the program with
\* "concurrent map iteration and map write".
MapRace == \E p \in Connectors : p # Caller /\ pc[p] = "c_replay"

\* C6 mutant: Subscribe without the existence test.
Subscribe_noExistenceTest(isin) ==
    /\ Running
    /\ pc[Caller] = "idle"
    /\ wanted' = wanted \cup {isin}
    /\ subscriptions' = subscriptions \cup {isin}
    /\ pc' = [pc EXCEPT ![Caller] = "s_send"]
    /\ arg' = isin
    /\ UNCHANGED <<state, processData, connection, failedReconnects,
                   notifierLen, notifierClosed, rawMessages, connStatus,
                   replayVars, listenVars, consumer, panicked, discDone,
                   result>>

\* Subscribe(isin): the existence test and the map insert.
Subscribe(isin) ==
    /\ Running
    /\ pc[Caller] = "idle"
    /\ wanted' = wanted \cup {isin}
    /\ IF isin \notin subscriptions
       THEN /\ subscriptions' = subscriptions \cup {isin}
            /\ pc' = [pc EXCEPT ![Caller] = "s_send"]
            /\ arg' = isin
       ELSE UNCHANGED <<subscriptions, pc, arg>>
    /\ UNCHANGED <<state, processData, connection, failedReconnects,
                   notifierLen, notifierClosed, rawMessages, connStatus,
                   replayVars, listenVars, consumer, panicked, discDone,
                   result>>

\* Subscribe: lms.sendSubscription(lms.getSubscription(isin)).
sendSubscription ==
    /\ Running
    /\ pc[Caller] = "s_send"
    /\ callerWrite("subscribe")
    /\ UNCHANGED <<streamVars, connStatus, arg, replayVars, listenVars,
                   consumer, wanted, discDone, result>>

\* Unsubscribe(isin): the existence test and the map delete.
Unsubscribe(isin) ==
    /\ Running
    /\ pc[Caller] = "idle"
    /\ wanted' = wanted \ {isin}
    /\ IF isin \in subscriptions
       THEN /\ subscriptions' = subscriptions \ {isin}
            /\ pc' = [pc EXCEPT ![Caller] = "u_send"]
            /\ arg' = isin
       ELSE UNCHANGED <<subscriptions, pc, arg>>
    /\ UNCHANGED <<state, processData, connection, failedReconnects,
                   notifierLen, notifierClosed, rawMessages, connStatus,
                   replayVars, listenVars, consumer, panicked, discDone,
                   result>>

\* Unsubscribe: lms.connection.WriteJSON(unsubscribe).
Unsubscribe_write ==
    /\ Running
    /\ pc[Caller] = "u_send"
    /\ callerWrite("unsubscribe")
    /\ UNCHANGED <<streamVars, connStatus, arg, replayVars, listenVars,
                   consumer, wanted, discDone, result>>

\* The runtime detects the map write of Subscribe/Unsubscribe racing with
\* the replay loop's range and ends the program.
mapRaceFatal ==
    /\ Running
    /\ pc[Caller] = "idle"
    /\ MapRace
    /\ panicked' = "concurrent map iteration and map write"
    /\ UNCHANGED <<streamVars, connStatus, pc, arg, replayVars, listenVars,
                   consumer, wanted, discDone, result>>

\* SetRawMessageChannel(channel)
SetRawMessageChannel ==
    /\ Running
    /\ pc[Caller] = "idle"
    /\ ~rawMessages
    /\ rawMessages' = TRUE
    /\ UNCHANGED <<state, processData, subscriptions, connection,
                   failedReconnects, notifierLen, notifierClosed, connStatus,
                   pc, arg, replayVars, listenVars, consumer, panicked,
                   wanted, discDone, result>>

\* Disconnect(): state = disconnected, processData = false,
\* lms.connection.Close(), close(lms.reconnectNotifier).  Close() on a nil
\* handle is a nil pointer dereference; closing a closed connection only
\* returns an error; closing a closed channel panics.
Disconnect ==
    /\ Running
    /\ pc[Caller] = "idle"
    /\ state' = State_disconnected
    /\ processData' = FALSE
    /\ IF connection = NilConn
       THEN /\ panicked' = "nil pointer dereference"
            /\ UNCHANGED <<connStatus, notifierClosed, discDone>>
       ELSE /\ connStatus' = [connStatus EXCEPT ![connection] = "closed"]
            /\ IF notifierClosed
               THEN /\ panicked' = "close of closed channel"
                    /\ UNCHANGED <<notifierClosed, discDone>>
               ELSE /\ notifierClosed' = TRUE
                    /\ discDone' = TRUE
                    /\ panicked' = panicked
    /\ UNCHANGED <<subscriptions, connection, failedReconnects, notifierLen,
                   rawMessages, pc, arg, replayVars, listenVars, consumer,
                   wanted, result>>

\* ---------------------------------------------------------------- listen()
\* C24 mutant: the invalid-request marker is tested before the
\* unknown-instrument marker.
classify_invalidFirst(msg, tap) ==
    IF isInvalidRequest(msg)
    THEN [pc |-> "sendMsgErr", val |-> [NoVal EXCEPT !.err = ErrInvalidRequest,
                                                     !.unknown = msg.unknown,
                                                     !.invalid = msg.invalid]]
    ELSE IF isUnknownISIN(msg)
    THEN [pc |-> "sendMsgErr", val |-> [NoVal EXCEPT !.err = ErrUnknownISIN,
                                                     !.unknown = msg.unknown,
                                                     !.invalid = msg.invalid]]
    ELSE IF tap
    THEN [pc |-> "sendRaw", val |-> [NoVal EXCEPT !.wellFormed = msg.wellFormed]]
    ELSE IF Unmarshal(msg) # ""
    THEN [pc |-> "sendMsgErr", val |-> [NoVal EXCEPT !.err = Unmarshal(msg)]]
    ELSE [pc |-> "sendUpdate", val |-> NoVal]

\* Where a successfully read payload goes: the position the goroutine
\* reaches and the value it carries there.
classify(msg, tap) ==
    IF isUnknownISIN(msg)
    THEN [pc |-> "sendMsgErr", val |-> [NoVal EXCEPT !.err = ErrUnknownISIN,
                                                     !.unknown = msg.unknown,
                                                     !.invalid = msg.invalid]]
    ELSE IF isInvalidRequest(msg)
    THEN [pc |-> "sendMsgErr", val |-> [NoVal EXCEPT !.err = ErrInvalidRequest,
                                                     !.unknown = msg.unknown,
                                                     !.invalid = msg.invalid]]
    ELSE IF tap
    THEN [pc |-> "sendRaw", val |-> [NoVal EXCEPT !.wellFormed = msg.wellFormed]]
    ELSE IF Unmarshal(msg) # ""
    THEN [pc |-> "sendMsgErr", val |-> [NoVal EXCEPT !.err = Unmarshal(msg)]]
    ELSE [pc |-> "sendUpdate", val |-> NoVal]

\* for lms.processData { ... lms.connection.ReadMessage(): the loop test
\* and the start of the blocking read on the current connection handle.
listen_loop(i) ==
    /\ Running
    /\ lpc[i] = "loop"
    /\ IF processData
       THEN /\ lpc' = [lpc EXCEPT ![i] = "read"]
            /\ lconn' = [lconn EXCEPT ![i] = connection]
       ELSE /\ lpc' = [lpc EXCEPT ![i] = "done"]
            /\ lconn' = [lconn EXCEPT ![i] = NilConn]
    /\ UNCHANGED <<streamVars, connStatus, pc, arg, replayVars, lval,
                   consumer, panicked, wanted, discDone, result>>

\* ReadMessage returns a payload.
listen_readMessage(i) ==
    /\ Running
    /\ lpc[i] = "read"
    /\ connStatus[lconn[i]] = "open"
    /\ \E msg \in Payloads :
        /\ lpc' = [lpc EXCEPT ![i] = classify(msg, rawMessages).pc]
        /\ lval' = [lval EXCEPT ![i] = classify(msg, rawMessages).val]
    /\ UNCHANGED <<streamVars, connStatus, pc, arg, replayVars, lconn,
                   consumer, panicked, wanted, discDone, result>>

\* The errors ReadMessage can return on a connection: after Close() the
\* network error of a closed socket, after a drop any error.
ReadErrorsOf(c) ==
    IF connStatus[c] = "closed"
    THEN {e \in ReadErrors : ~e.close}
    ELSE ReadErrors

\* C25 mutant: an abnormal closure is not reported as ErrConnectionClosed.
readErrorValue_withoutAbnormal(err) ==
    IF IsCloseError(err, {CloseGoingAway, CloseNormalClosure})
    THEN ErrConnectionClosed
    ELSE TransportError

\* The error listen emits for a read error.
readErrorValue(err) ==
    IF IsCloseError(err, {CloseGoingAway, CloseNormalClosure, CloseAbnormalClosure})
    THEN ErrConnectionClosed
    ELSE TransportError

\* ReadMessage returns an error: lms.processData = false.
listen_readError(i) ==
    /\ Running
    /\ lpc[i] = "read"
    /\ connStatus[lconn[i]] \in {"closed", "dropped"}
    /\ \E e \in ReadErrorsOf(lconn[i]) :
        lval' = [lval EXCEPT ![i] = [NoVal EXCEPT !.err = readErrorValue(e),
                                                  !.close = e.close,
                                                  !.code = e.code]]
    /\ processData' = FALSE
    /\ lpc' = [lpc EXCEPT ![i] = "sendErr"]
    /\ UNCHANGED <<state, subscriptions, connection, failedReconnects,
                   notifierLen, notifierClosed, rawMessages, connStatus, pc,
                   arg, replayVars, lconn, consumer, panicked, wanted,
                   discDone, result>>

\* lms.errorChannel <- ErrConnectionClosed / err (blocks until the consumer
\* takes it).
listen_sendErr(i) ==
    /\ Running
    /\ lpc[i] = "sendErr"
    /\ consumer
    /\ lpc' = [lpc EXCEPT ![i] = "checkState"]
    /\ lval' = [lval EXCEPT ![i] = NoVal]
    /\ UNCHANGED <<streamVars, connStatus, pc, arg, replayVars, lconn,
                   consumer, panicked, wanted, discDone, result>>

\* C12 mutant: the listen loop never requests a reconnect.
listen_checkState_noRequest(i) ==
    /\ Running
    /\ lpc[i] = "checkState"
    /\ lpc' = [lpc EXCEPT ![i] = "loop"]
    /\ UNCHANGED <<streamVars, connStatus, pc, arg, replayVars, lconn, lval,
                   consumer, panicked, wanted, discDone, result>>

\* if lms.state != State_disconnected
listen_checkState(i) ==
    /\ Running
    /\ lpc[i] = "checkState"
    /\ lpc' = [lpc EXCEPT ![i] = IF state # State_disconnected THEN "notify" ELSE "loop"]
    /\ UNCHANGED <<streamVars, connStatus, pc, arg, replayVars, lconn, lval,
                   consumer, panicked, wanted, discDone, result>>

\* lms.reconnectNotifier <- 1
listen_notify(i) ==
    /\ Running
    /\ lpc[i] = "notify"
    /\ NotifierSendEnabled
    /\ NotifierSend
    /\ lpc' = [lpc EXCEPT ![i] = IF notifierClosed THEN lpc[i] ELSE "loop"]
    /\ UNCHANGED <<state, processData, subscriptions, connection,
                   failedReconnects, notifierClosed, rawMessages, connStatus,
                   pc, arg, replayVars, lconn, lval, consumer, wanted,
                   discDone, result>>

\* C11 mutant: a message-local error is treated as a read failure.
listen_sendMsgErr_fatal(i) ==
    /\ Running
    /\ lpc[i] = "sendMsgErr"
    /\ consumer
    /\ processData' = FALSE
    /\ lpc' = [lpc EXCEPT ![i] = "checkState"]
    /\ lval' = [lval EXCEPT ![i] = NoVal]
    /\ UNCHANGED <<state, subscriptions, connection, failedReconnects,
                   notifierLen, notifierClosed, rawMessages, connStatus, pc,
                   arg, replayVars, lconn, consumer, panicked, wanted,
                   discDone, result>>

\* lms.errorChannel <- ErrUnknownISIN / ErrInvalidRequest / decodeError
listen_sendMsgErr(i) ==
    /\ Running
    /\ lpc[i] = "sendMsgErr"
    /\ consumer
    /\ lpc' = [lpc EXCEPT ![i] = "loop"]
    /\ lval' = [lval EXCEPT ![i] = NoVal]
    /\ UNCHANGED <<streamVars, connStatus, pc, arg, replayVars, lconn,
                   consumer, panicked, wanted, discDone, result>>

\* lms.rawMessages <- msg, then the decode.
listen_sendRaw(i) ==
    /\ Running
    /\ lpc[i] = "sendRaw"
    /\ consumer
    /\ IF lval[i].wellFormed
       THEN /\ lpc' = [lpc EXCEPT ![i] = "sendUpdate"]
            /\ lval' = [lval EXCEPT ![i] = NoVal]
       ELSE /\ lpc' = [lpc EXCEPT ![i] = "sendMsgErr"]
            /\ lval' = [lval EXCEPT ![i] = [NoVal EXCEPT !.err = DecodeError]]
    /\ UNCHANGED <<streamVars, connStatus, pc, arg, replayVars, lconn,
                   consumer, panicked, wanted, discDone, result>>

\* lms.sendUpdate(update): updateChannel <- update
listen_sendUpdate(i) ==
    /\ Running
    /\ lpc[i] = "sendUpdate"
    /\ consumer
    /\ lpc' = [lpc EXCEPT ![i] = "loop"]
    /\ UNCHANGED <<streamVars, connStatus, pc, arg, replayVars, lconn, lval,
                   consumer, panicked, wanted, discDone, result>>

\* ------------------------------------------------------------ environment
\* The peer or the network ends an open connection.
Drop(c) ==
    /\ Running
    /\ connStatus[c] = "open"
    /\ connStatus' = [connStatus EXCEPT ![c] = "dropped"]
    /\ UNCHANGED <<streamVars, pc, arg, replayVars, listenVars, consumer,
                   panicked, wanted, discDone, result>>

\* The caller's code starts or stops receiving from the sinks.
ConsumerStart ==
    /\ Running
    /\ ~consumer
    /\ consumer' = TRUE
    /\ UNCHANGED <<streamVars, connStatus, pc, arg, replayVars, listenVars,
                   panicked, wanted, discDone, result>>

ConsumerStop ==
    /\ Running
    /\ consumer
    /\ consumer' = FALSE
    /\ UNCHANGED <<streamVars, connStatus, pc, arg, replayVars, listenVars,
                   panicked, wanted, discDone, result>>

\* ------------------------------------------------------- the specification
Connect(p) ==
    \/ connect_dialFail(p)
    \/ connect_sendErr(p)
    \/ connect_notify(p)
    \/ connect_dialOk(p)
    \/ connect_replay(p)
    \/ connect_return(p)

CallerStep ==
    \/ NewTickStream
    \/ \E isin \in Isins : Subscribe(isin)
    \/ sendSubscription
    \/ \E isin \in Isins : Unsubscribe(isin)
    \/ Unsubscribe_write
    \/ mapRaceFatal
    \/ SetRawMessageChannel
    \/ Disconnect

WatchdogStep ==
    \/ reconnectWatchdog_recv
    \/ reconnectWatchdog_exit
    \/ reconnectWatchdog_wake

Listen(i) ==
    \/ listen_loop(i)
    \/ listen_readMessage(i)
    \/ listen_readError(i)
    \/ listen_sendErr(i)
    \/ listen_checkState(i)
    \/ listen_notify(i)
    \/ listen_sendMsgErr(i)
    \/ listen_sendRaw(i)
    \/ listen_sendUpdate(i)

Environment ==
    \/ \E c \in Conns : Drop(c)
    \/ ConsumerStart
    \/ ConsumerStop

Next ==
    \/ CallerStep
    \/ WatchdogStep
    \/ \E p \in Connectors : Connect(p)
    \/ \E i \in Conns : Listen(i)
    \/ Environment

Spec == Init /\ [][Next]_vars


\* The stream when Disconnect() is never called and the consumer is always
\* receiving.  The goroutines of the stream are scheduled fairly; the caller
\* and the peer are free to act or not.
LiveInit == Init /\ consumer

LiveNext ==
    \/ NewTickStream
    \/ \E isin \in Isins : Subscribe(isin)
    \/ sendSubscription
    \/ \E isin \in Isins : Unsubscribe(isin)
    \/ Unsubscribe_write
    \/ SetRawMessageChannel
    \/ reconnectWatchdog_recv
    \/ reconnectWatchdog_wake
    \/ \E p \in Connectors : Connect(p)
    \/ \E i \in Conns : Listen(i)
    \/ \E c \in Conns : Drop(c)

LiveSpec ==
    /\ LiveInit
    /\ [][LiveNext]_vars
    /\ WF_vars(NewTickStream \/ Connect(Caller))
    /\ WF_vars(reconnectWatchdog_recv \/ reconnectWatchdog_wake \/ Connect(Watchdog))
    /\ \A i \in Conns : WF_vars(Listen(i))

\* ================================================ the plain stream (lemon.go)
\* The stream before construction: no connection, no registry map, no
\* goroutine; there is no watchdog and no state field.
plain_Init ==
    /\ state = ""
    /\ processData = FALSE
    /\ subscriptions = {}
    /\ connection = NilConn
    /\ failedReconnects = 0
    /\ notifierLen = 0
    /\ notifierClosed = FALSE
    /\ rawMessages = FALSE
    /\ connStatus = [c \in Conns |-> "unused"]
    /\ pc = [p \in Connectors |-> IF p = Caller THEN "new" ELSE "absent"]
    /\ arg = ""
    /\ replayStart = [p \in Connectors |-> {}]
    /\ replayed = [p \in Connectors |-> {}]
    /\ lpc = [c \in Conns |-> "unborn"]
    /\ lconn = [c \in Conns |-> NilConn]
    /\ lval = [c \in Conns |-> NoVal]
    /\ consumer \in BOOLEAN
    /\ panicked = "none"
    /\ wanted = {}
    /\ discDone = FALSE
    /\ result = ""

\* C10 mutant: connect() drops the dial error and returns nil.
plain_connect_dialFail_returnsNil ==
    /\ Running
    /\ pc[Caller] = "new"
    /\ result' = "nil"
    /\ pc' = [pc EXCEPT ![Caller] = "idle"]
    /\ UNCHANGED <<streamVars, connStatus, arg, replayVars, listenVars,
                   consumer, panicked, wanted, discDone>>

\* NewTickStream / NewQuoteStream, connect(): the dial fails and the
\* constructor returns ErrConnectFailed.
plain_connect_dialFail ==
    /\ Running
    /\ pc[Caller] = "new"
    /\ result' = ErrConnectFailed
    /\ pc' = [pc EXCEPT ![Caller] = "idle"]
    /\ UNCHANGED <<streamVars, connStatus, arg, replayVars, listenVars,
                   consumer, panicked, wanted, discDone>>

\* NewTickStream / NewQuoteStream, connect(): the dial succeeds:
\* connection, processData = true, a new registry map, go lms.listen(), and
\* the constructor returns a nil error.
plain_connect_dialOk ==
    /\ Running
    /\ pc[Caller] = "new"
    /\ FreshConns # {}
    /\ connection' = NewConn
    /\ connStatus' = [connStatus EXCEPT ![NewConn] = "open"]
    /\ processData' = TRUE
    /\ subscriptions' = {}
    /\ lpc' = [lpc EXCEPT ![NewListener] = "loop"]
    /\ result' = "nil"
    /\ pc' = [pc EXCEPT ![Caller] = "idle"]
    /\ UNCHANGED <<state, failedReconnects, notifierLen, notifierClosed,
                   rawMessages, arg, replayVars, lconn, lval, consumer,
                   panicked, wanted, discDone>>

\* Subscribe(isin): the existence test and the map insert.  The map is made
\* by a successful connect(); an insert into the nil map panics.
plain_Subscribe(isin) ==
    /\ Running
    /\ pc[Caller] = "idle"
    /\ wanted' = wanted \cup {isin}
    /\ IF isin \in subscriptions
       THEN UNCHANGED <<subscriptions, pc, arg, panicked>>
       ELSE IF connection = NilConn
       THEN /\ panicked' = "assignment to entry in nil map"
            /\ UNCHANGED <<subscriptions, pc, arg>>
       ELSE /\ subscriptions' = subscriptions \cup {isin}
            /\ pc' = [pc EXCEPT ![Caller] = "s_send"]
            /\ arg' = isin
            /\ panicked' = panicked
    /\ UNCHANGED <<state, processData, connection, failedReconnects,
                   notifierLen, notifierClosed, rawMessages, connStatus,
                   replayVars, listenVars, consumer, discDone, result>>

\* Subscribe: lms.connection.WriteJSON(subscription)
plain_Subscribe_write ==
    /\ Running
    /\ pc[Caller] = "s_send"
    /\ callerWrite("subscribe")
    /\ UNCHANGED <<streamVars, connStatus, arg, replayVars, listenVars,
                   consumer, wanted, discDone, result>>

\* Unsubscribe(isin): the existence test and the map delete.
plain_Unsubscribe(isin) ==
    /\ Running
    /\ pc[Caller] = "idle"
    /\ wanted' = wanted \ {isin}
    /\ IF isin \in subscriptions
       THEN /\ subscriptions' = subscriptions \ {isin}
            /\ pc' = [pc EXCEPT ![Caller] = "u_send"]
            /\ arg' = isin
       ELSE UNCHANGED <<subscriptions, pc, arg>>
    /\ UNCHANGED <<state, processData, connection, failedReconnects,
                   notifierLen, notifierClosed, rawMessages, connStatus,
                   replayVars, listenVars, consumer, panicked, discDone,
                   result>>

\* Unsubscribe: lms.connection.WriteJSON(unsubscribe)
plain_Unsubscribe_write ==
    /\ Running
    /\ pc[Caller] = "u_send"
    /\ callerWrite("unsubscribe")
    /\ UNCHANGED <<streamVars, connStatus, arg, replayVars, listenVars,
                   consumer, wanted, discDone, result>>

\* Disconnect(): processData = false, lms.connection.Close().
plain_Disconnect ==
    /\ Running
    /\ pc[Caller] = "idle"
    /\ processData' = FALSE
    /\ IF connection = NilConn
       THEN /\ panicked' = "nil pointer dereference"
            /\ UNCHANGED <<connStatus, discDone>>
       ELSE /\ connStatus' = [connStatus EXCEPT ![connection] = "closed"]
            /\ discDone' = TRUE
            /\ panicked' = panicked
    /\ UNCHANGED <<state, subscriptions, connection, failedReconnects,
                   notifierLen, notifierClosed, rawMessages, pc, arg,
                   replayVars, listenVars, consumer, wanted, result>>

\* SetRawMessageChannel(channel)
plain_SetRawMessageChannel ==
    /\ Running
    /\ pc[Caller] = "idle"
    /\ ~rawMessages
    /\ rawMessages' = TRUE
    /\ UNCHANGED <<state, processData, subscriptions, connection,
                   failedReconnects, notifierLen, notifierClosed, connStatus,
                   pc, arg, replayVars, listenVars, consumer, panicked,
                   wanted, discDone, result>>

\* listen(): the top of the for loop: the blocking read starts on the
\* connection handle.
plain_listen_loop(i) ==
    /\ Running
    /\ lpc[i] = "loop"
    /\ lpc' = [lpc EXCEPT ![i] = "read"]
    /\ lconn' = [lconn EXCEPT ![i] = connection]
    /\ UNCHANGED <<streamVars, connStatus, pc, arg, replayVars, lval,
                   consumer, panicked, wanted, discDone, result>>

\* ReadMessage returns a payload: return if !processData, else classify.
plain_listen_readMessage(i) ==
    /\ Running
    /\ lpc[i] = "read"
    /\ connStatus[lconn[i]] = "open"
    /\ IF ~processData
       THEN /\ lpc' = [lpc EXCEPT ![i] = "done"]
            /\ lval' = lval
       ELSE \E msg \in Payloads :
            /\ lpc' = [lpc EXCEPT ![i] = classify(msg, rawMessages).pc]
            /\ lval' = [lval EXCEPT ![i] = classify(msg, rawMessages).val]
    /\ UNCHANGED <<streamVars, connStatus, pc, arg, replayVars, lconn,
                   consumer, panicked, wanted, discDone, result>>

\* C26 mutant: the read error is handled without looking at processData, as
\* the reconnecting stream's listen does.
plain_listen_readError_noCheck(i) ==
    /\ Running
    /\ lpc[i] = "read"
    /\ connStatus[lconn[i]] \in {"closed", "dropped"}
    /\ \E e \in ReadErrorsOf(lconn[i]) :
            lval' = [lval EXCEPT ![i] = [NoVal EXCEPT !.err = readErrorValue(e),
                                                      !.close = e.close,
                                                      !.code = e.code]]
    /\ processData' = FALSE
    /\ lpc' = [lpc EXCEPT ![i] = "sendErr"]
    /\ UNCHANGED <<state, subscriptions, connection, failedReconnects,
                   notifierLen, notifierClosed, rawMessages, connStatus, pc,
                   arg, replayVars, lconn, consumer, panicked, wanted,
                   discDone, result>>

\* ReadMessage returns an error: return if !processData, else
\* processData = false and the error is to be emitted.
plain_listen_readError(i) ==
    /\ Running
    /\ lpc[i] = "read"
    /\ connStatus[lconn[i]] \in {"closed", "dropped"}
    /\ IF ~processData
       THEN /\ lpc' = [lpc EXCEPT ![i] = "done"]
            /\ UNCHANGED <<lval, processData>>
       ELSE /\ \E e \in ReadErrorsOf(lconn[i]) :
                lval' = [lval EXCEPT ![i] = [NoVal EXCEPT !.err = readErrorValue(e),
                                                          !.close = e.close,
                                                          !.code = e.code]]
            /\ processData' = FALSE
            /\ lpc' = [lpc EXCEPT ![i] = "sendErr"]
    /\ UNCHANGED <<state, subscriptions, connection, failedReconnects,
                   notifierLen, notifierClosed, rawMessages, connStatus, pc,
                   arg, replayVars, lconn, consumer, panicked, wanted,
                   discDone, result>>

\* lms.errorChannel <- ErrConnectionClosed / err, then the loop goes round.
plain_listen_sendErr(i) ==
    /\ Running
    /\ lpc[i] = "sendErr"
    /\ consumer
    /\ lpc' = [lpc EXCEPT ![i] = "loop"]
    /\ lval' = [lval EXCEPT ![i] = NoVal]
    /\ UNCHANGED <<streamVars, connStatus, pc, arg, replayVars, lconn,
                   consumer, panicked, wanted, discDone, result>>

\* lms.errorChannel <- ErrUnknownISIN / ErrInvalidRequest / decodeError
plain_listen_sendMsgErr(i) ==
    /\ Running
    /\ lpc[i] = "sendMsgErr"
    /\ consumer
    /\ lpc' = [lpc EXCEPT ![i] = "loop"]
    /\ lval' = [lval EXCEPT ![i] = NoVal]
    /\ UNCHANGED <<streamVars, connStatus, pc, arg, replayVars, lconn,
                   consumer, panicked, wanted, discDone, result>>

\* lms.rawMessages <- msg, then the decode.
plain_listen_sendRaw(i) ==
    /\ Running
    /\ lpc[i] = "sendRaw"
    /\ consumer
    /\ IF lval[i].wellFormed
       THEN /\ lpc' = [lpc EXCEPT ![i] = "sendUpdate"]
            /\ lval' = [lval EXCEPT ![i] = NoVal]
       ELSE /\ lpc' = [lpc EXCEPT ![i] = "sendMsgErr"]
            /\ lval' = [lval EXCEPT ![i] = [NoVal EXCEPT !.err = DecodeError]]
    /\ UNCHANGED <<streamVars, connStatus, pc, arg, replayVars, lconn,
                   consumer, panicked, wanted, discDone, result>>

\* lms.sendUpdate(update)
plain_listen_sendUpdate(i) ==
    /\ Running
    /\ lpc[i] = "sendUpdate"
    /\ consumer
    /\ lpc' = [lpc EXCEPT ![i] = "loop"]
    /\ UNCHANGED <<streamVars, connStatus, pc, arg, replayVars, lconn, lval,
                   consumer, panicked, wanted, discDone, result>>

plain_Listen(i) ==
    \/ plain_listen_loop(i)
    \/ plain_listen_readMessage(i)
    \/ plain_listen_readError(i)
    \/ plain_listen_sendErr(i)
    \/ plain_listen_sendMsgErr(i)
    \/ plain_listen_sendRaw(i)
    \/ plain_listen_sendUpdate(i)

plain_Next ==
    \/ plain_connect_dialFail
    \/ plain_connect_dialOk
    \/ \E isin \in Isins : plain_Subscribe(isin)
    \/ plain_Subscribe_write
    \/ \E isin \in Isins : plain_Unsubscribe(isin)
    \/ plain_Unsubscribe_write
    \/ plain_Disconnect
    \/ plain_SetRawMessageChannel
    \/ \E i \in Conns : plain_Listen(i)
    \/ Environment

PlainSpec == plain_Init /\ [][plain_Next]_vars

\* The plain stream with its listen goroutine scheduled.
PlainLiveSpec == PlainSpec /\ \A i \in Conns : WF_vars(plain_Listen(i))

\* ===================================================== isExchangeOpen
\* time.Weekday values.
Weekdays == {"Sunday", "Monday", "Tuesday", "Wednesday", "Thursday",
             "Friday", "Saturday"}
\* Wall-clock times in Europe/Berlin around and between the opening and
\* closing times, to the nanosecond.
ClockHours == {0, 7, 9, 10, 12, 13, 16, 17, 18, 19, 22, 23}
ClockMinutes == {0, 29, 30, 31, 59}
ClockSeconds == {0, 1, 59}
ClockNanos == {0, 1}
Times == [weekday : Weekdays, hour : ClockHours, minute : ClockMinutes,
          second : ClockSeconds, nsec : ClockNanos]

\* openingHours[weekday], or the default hours of the else branch:
\* <<opening hour, opening minute, closing hour, closing minute>>.
openingHours(weekday) ==
    IF weekday = "Saturday" THEN <<10, 0, 13, 0>>
    ELSE IF weekday = "Sunday" THEN <<17, 0, 19, 0>>
    ELSE <<7, 30, 23, 0>>

\* time.Date(now.Year(), now.Month(), now.Day(), hour, min, 0, 0, location):
\* the instant of now's day at hour:min:00.
Date(now, hour, min) ==
    [weekday |-> now.weekday, hour |-> hour, minute |-> min, second |-> 0,
     nsec |-> 0]

\* t.Before(u) for instants of the same day.
Before(t, u) ==
    \/ t.hour < u.hour
    \/ t.hour = u.hour /\ t.minute < u.minute
    \/ t.hour = u.hour /\ t.minute = u.minute /\ t.second < u.second
    \/ t.hour = u.hour /\ t.minute = u.minute /\ t.second = u.second
            /\ t.nsec < u.nsec
\* t.After(u)
After(t, u) == Before(u, t)

\* C20 mutant: the opening and the closing instant count as open.
isExchangeOpen_inclusive(now) ==
    LET hours == openingHours(now.weekday)
        opening == Date(now, hours[1], hours[2])
        closing == Date(now, hours[3], hours[4])
    IN ~Before(now, opening) /\ ~After(now, closing)

isExchangeOpen(now) ==
    LET hours == openingHours(now.weekday)
        opening == Date(now, hours[1], hours[2])
        closing == Date(now, hours[3], hours[4])
    IN After(now, opening) /\ Before(now, closing)

\* No stream exists; the caller is about to ask whether the exchange is
\* open at the current time in Europe/Berlin.
ExchangeInit ==
    /\ state = ""
    /\ processData = FALSE
    /\ subscriptions = {}
    /\ connection = NilConn
    /\ failedReconnects = 0
    /\ notifierLen = 0
    /\ notifierClosed = FALSE
    /\ rawMessages = FALSE
    /\ connStatus = [c \in Conns |-> "unused"]
    /\ pc = [p \in Connectors |-> IF p = Caller THEN "call" ELSE "absent"]
    /\ arg \in Times
    /\ replayStart = [p \in Connectors |-> {}]
    /\ replayed = [p \in Connectors |-> {}]
    /\ lpc = [c \in Conns |-> "unborn"]
    /\ lconn = [c \in Conns |-> NilConn]
    /\ lval = [c \in Conns |-> NoVal]
    /\ consumer = FALSE
    /\ panicked = "none"
    /\ wanted = {}
    /\ discDone = FALSE
    /\ result = ""

\* IsExchangeOpen(): return isExchangeOpen(time.Now().In(location))
IsExchangeOpen ==
    /\ pc[Caller] = "call"
    /\ result' = isExchangeOpen(arg)
    /\ pc' = [pc EXCEPT ![Caller] = "returned"]
    /\ UNCHANGED <<streamVars, connStatus, arg, replayVars, listenVars,
                   consumer, panicked, wanted, discDone>>

ExchangeSpec == ExchangeInit /\ [][IsExchangeOpen]_vars

\* ------------------------------------------------------ events of a step
\* A dial attempt of connect() completes (with either outcome).
DialMade == \E p \in Connectors : pc[p] = "dial" /\ pc'[p] # "dial"
\* A listen goroutine is started.
ListenStarted == \E i \in Conns : lpc[i] = "unborn" /\ lpc'[i] # "unborn"
\* The replay loop of connect() writes a subscribe message.
ReplaySent == \E p \in Connectors : replayed'[p] # replayed[p] /\ pc[p] = "c_replay" /\ pc'[p] = "c_replay"
\* A value is sent into the error sink.
ErrorEmitted ==
    \/ \E p \in Connectors : pc[p] = "c_sendErr" /\ pc'[p] # "c_sendErr"
    \/ \E i \in Conns : lpc[i] \in {"sendErr", "sendMsgErr"} /\ lpc'[i] # lpc[i]
\* connect() returns from its replay loop.
ReplayDone(p) == pc[p] = "c_replay" /\ pc'[p] # "c_replay"

\* ------------------------------------------------------------------ claims

\* C1: once Disconnect() has returned, the state is Disconnected in every
\* later state.
C1_DisconnectedIsTerminal == discDone => state = State_disconnected

\* C2: after Disconnect() no dial attempt is made, no listen loop is started
\* and no subscribe replay is sent.
C2_NoReconnectAfterDisconnect ==
    [][discDone => ~(DialMade \/ ListenStarted \/ ReplaySent)]_vars

\* C3: after Disconnect() nothing more is written to the error sink.
C3_NoErrorAfterDisconnect == [][discDone => ~ErrorEmitted]_vars

\* C4: the replay of a successful dial has sent, when connect() returns,
\* exactly one subscribe message for each id that was in the registry when
\* the dial succeeded, and for no other id.
C4_ReplayIsRegistryAtDial ==
    [][\A p \in Connectors : ReplayDone(p) => replayed[p] = replayStart[p]]_vars

\* C5: in every reachable state the registry is the set of ids the caller
\* has subscribed and not since unsubscribed.
C5_RegistryIsWhatCallerWants == subscriptions = wanted

\* C5 witness: a registry with an id in it has lived through a connection
\* drop, a failed dial and a reconnect, and Disconnect() has returned.
C5_Witness ==
    /\ wanted # {}
    /\ connStatus[1] = "dropped"
    /\ connection = 2
    /\ discDone


\* C6: Subscribe and Unsubscribe are idempotent.  A call puts a subscribe
\* (unsubscribe) write in hand only for an id that was absent (present), and
\* then the registry holds (no longer holds) it; the call makes that one
\* write and returns; a call that makes no write leaves the registry as it
\* was.
C6_SubscribeUnsubscribeIdempotent ==
    [][/\ (pc[Caller] = "idle" /\ pc'[Caller] = "s_send") =>
            (arg' \notin subscriptions /\ subscriptions' = subscriptions \cup {arg'})
       /\ (pc[Caller] = "idle" /\ pc'[Caller] = "u_send") =>
            (arg' \in subscriptions /\ subscriptions' = subscriptions \ {arg'})
       /\ (pc[Caller] \in {"s_send", "u_send"} /\ pc'[Caller] # pc[Caller]) =>
            pc'[Caller] = "idle"
       /\ (pc[Caller] = "idle" /\ pc'[Caller] = "idle") =>
            subscriptions' = subscriptions]_vars

\* C6 witness: on a connected stream with a live connection both ids have
\* been subscribed and the calls have returned.
C6_Witness ==
    /\ state = State_connected
    /\ connection # NilConn
    /\ connStatus[connection] = "open"
    /\ subscriptions = Isins
    /\ pc[Caller] = "idle"
    /\ panicked = "none"

\* C8: a second Disconnect() completes without raising a failure.
C8_SecondDisconnectIsSafe == discDone => panicked # "close of closed channel"

\* C9: Subscribe, Unsubscribe and Disconnect never raise a failure to the
\* caller.
C9_MutatorsNeverFail ==
    panicked \notin {"nil pointer dereference", "close of closed channel"}


\* C7: when Disconnect() is never called and the consumer keeps draining the
\* error sink, a listen loop's read failure leads to a dial attempt, and,
\* once a connection had been established, every failed dial of the
\* watchdog leads to another dial attempt.
C7_ReconnectsForever ==
    (\/ \E i \in Conns : lpc[i] = "sendErr"
     \/ pc[Watchdog] = "c_sendErr" /\ connection # NilConn)
        ~> (pc[Watchdog] = "dial")


\* No connection has been accepted by the remote end.
NoConnectionMade == \A c \in Conns : connStatus[c] = "unused"
\* The listen goroutines that have been started.
Listeners == {i \in Conns : lpc[i] # "unborn"}

\* C10: the plain stream's constructor returns ErrConnectFailed exactly when
\* the dial failed; then no listen loop is started, nothing is written to
\* the error sink and no dial is made later; when the dial succeeded it
\* returns a nil error and exactly one listen loop has been started.
C10_ConstructorReportsFirstDial ==
    /\ [](result # "" =>
            /\ (result = ErrConnectFailed) <=> NoConnectionMade
            /\ result = ErrConnectFailed => Listeners = {}
            /\ result # ErrConnectFailed =>
                    (result = "nil" /\ Cardinality(Listeners) = 1))
    /\ [][/\ result = ErrConnectFailed =>
                (~ErrorEmitted /\ UNCHANGED <<connection, connStatus, lpc>>)
          /\ (result = "" /\ result' = "nil") =>
                Cardinality({i \in Conns : lpc'[i] \notin {"unborn", "done"}}) = 1
         ]_vars

\* C10 witness: the dial failed and the constructor has returned the error.
C10_Witness == result = ErrConnectFailed /\ pc[Caller] = "idle" /\ panicked = "none"


\* C11: when a listen loop has emitted ErrUnknownISIN, ErrInvalidRequest or a
\* decode error it is back at the top of its loop, and that step changes
\* neither the state, the connection handle, processData, the failure
\* counter, the registry nor the reconnect notifier.
C11_MessageErrorsAreLocal ==
    [][\A i \in Conns :
        (lpc[i] = "sendMsgErr" /\ lpc'[i] # "sendMsgErr") =>
            /\ lpc'[i] = "loop"
            /\ UNCHANGED <<state, connection, processData, failedReconnects,
                           subscriptions, notifierLen, notifierClosed,
                           connStatus>>]_vars

\* C11 witness: a listen loop of a connected stream with subscriptions is
\* about to hand a decode error to a receiving consumer.
C11_Witness ==
    \E i \in Conns : /\ lpc[i] = "sendMsgErr"
                      /\ lval[i].err = DecodeError
                      /\ consumer
                      /\ state = State_connected
                      /\ subscriptions # {}


C13_CounterAtMostFive ==
    /\ failedReconnects <= 5
    /\ pc[Watchdog] = "sleep" => sleepDuration <= 5


\* C14: the failure counter changes only in connect(): a failed dial leaves
\* it or raises it by one, a successful dial sets it to 0; it does not change
\* while the watchdog sleeps, so the waits before consecutive failed dials
\* are the non-decreasing values of the counter, and the wait after the
\* first failure that follows a success is one minute.
C14_BackoffMonotoneAndReset ==
    [][/\ \A p \in Connectors :
            /\ (pc[p] = "c_sendErr" /\ pc'[p] # "c_sendErr") =>
                    (failedReconnects' >= failedReconnects
                        /\ failedReconnects' <= failedReconnects + 1
                        /\ failedReconnects' >= 1)
            /\ (pc[p] = "dial" /\ pc'[p] = "c_replay") => failedReconnects' = 0
       /\ failedReconnects' # failedReconnects =>
            \E p \in Connectors : pc[p] \in {"c_sendErr", "dial"} /\ pc'[p] # pc[p]
       /\ (pc[Watchdog] = "sleep" /\ pc'[Watchdog] = "sleep") =>
            sleepDuration' = sleepDuration
       /\ (pc[Watchdog] = "recv" /\ pc'[Watchdog] = "sleep") =>
            sleepDuration' = failedReconnects
      ]_vars

\* C14 witness: the second connection was established (counter 0) and has
\* dropped, the watchdog's dial has failed once since, and the watchdog
\* waits one minute before the next dial.
C14_Witness ==
    /\ connection = 2
    /\ connStatus[2] = "dropped"
    /\ pc[Watchdog] = "sleep"
    /\ sleepDuration = 1


\* C15: whenever the watchdog waits before a dial, the wait is strictly
\* positive.
C15_PositiveWaitBeforeRedial == pc[Watchdog] = "sleep" => sleepDuration > 0


\* C16: Subscribe and Unsubscribe go on to write a control message on the
\* connection handle only when the state is connected; in every other
\* state they change the registry at most.
C16_WritesOnlyWhenConnected ==
    [][(pc[Caller] = "idle" /\ pc'[Caller] \in {"s_send", "u_send"}) =>
            state = State_connected]_vars


\* C17: when the raw-message tap is set, every payload a listen loop reads
\* successfully is next sent into the tap, whatever markers it contains.
C17_TapGetsEveryPayload ==
    [][\A i \in Conns :
        (/\ lpc[i] = "read"
         /\ lpc'[i] # "read"
         /\ connStatus[lconn[i]] = "open"
         /\ rawMessages) => lpc'[i] = "sendRaw"]_vars


\* A listen loop holds a payload it has read and whose update it has not
\* yet delivered to the update sink.
HoldsUpdate(i) ==
    \/ lpc[i] = "sendUpdate"
    \/ lpc[i] = "sendRaw" /\ lval[i].wellFormed

\* C18: updates reach the update sink in the order their payloads were read
\* from the connection.  Deliveries of different listen loops are not
\* ordered with each other, so this is: no two listen loops hold undelivered
\* updates of one connection at the same time.
C18_UpdatesInTransportOrder ==
    \A i, j \in Conns :
        (i # j /\ HoldsUpdate(i) /\ HoldsUpdate(j)) => lconn[i] # lconn[j]


\* A listen loop is in a send on the error, raw-message or update sink that
\* no consumer is receiving: it cannot take a step until a consumer receives.
BlockedOnSink(i) ==
    /\ lpc[i] \in {"sendErr", "sendMsgErr", "sendRaw", "sendUpdate"}
    /\ ~consumer

\* C19: after Disconnect() no listen loop is held by a sink whose consumer
\* has stopped receiving.
C19_BlockedSinkCannotHoldListen ==
    discDone => \A i \in Conns : ~BlockedOnSink(i)


\* The position of a clock time in its day: twice the second of the day,
\* plus one when there is a fraction of a second.
HalfSeconds(t) ==
    2 * ((t.hour * 60 + t.minute) * 60 + t.second) + (IF t.nsec > 0 THEN 1 ELSE 0)
\* t is strictly inside the window from oh:om to ch:cm.
StrictlyInside(t, oh, om, ch, cm) ==
    /\ HalfSeconds(t) > 2 * ((oh * 60 + om) * 60)
    /\ HalfSeconds(t) < 2 * ((ch * 60 + cm) * 60)

\* C20: isExchangeOpen(t) is true exactly when t is strictly after the
\* opening and strictly before the closing time of its weekday: Saturday
\* 10:00-13:00, Sunday 17:00-19:00, any other day 07:30-23:00.
C20_OpenExactlyInsideWindow ==
    pc[Caller] = "returned" =>
        (result <=>
            IF arg.weekday = "Saturday" THEN StrictlyInside(arg, 10, 0, 13, 0)
            ELSE IF arg.weekday = "Sunday" THEN StrictlyInside(arg, 17, 0, 19, 0)
            ELSE StrictlyInside(arg, 7, 30, 23, 0))

\* C20 witness: one nanosecond after the Saturday opening the exchange is
\* reported open.
C20_Witness ==
    /\ pc[Caller] = "returned"
    /\ arg = [weekday |-> "Saturday", hour |-> 10, minute |-> 0, second |-> 0,
              nsec |-> 1]
    /\ result = TRUE


\* C21: no two listen loops are in a read on the same connection, so a loop
\* that has observed a read failure does not read the connection of the
\* listen loop started by the reconnect.
C21_OneListenLoopPerConnection ==
    \A i, j \in Conns :
        (i # j /\ lpc[i] = "read" /\ lpc[j] = "read") => lconn[i] # lconn[j]


\* C22: while the connect routine of the watchdog is in its replay (it has
\* replaced the connection handle and is ranging over the registry and
\* writing subscribe messages), the caller is not between the registry
\* update and the control-message write of a Subscribe or Unsubscribe, and
\* no step changes the registry.
C22_MutatorsSerializedWithReplay ==
    /\ [](pc[Watchdog] = "c_replay" => pc[Caller] \notin {"s_send", "u_send"})
    /\ [][pc[Watchdog] = "c_replay" => subscriptions' = subscriptions]_vars


\* C23: a failed dial is followed by one send of ErrConnectFailed into the
\* error sink, with which the counter rises by one or stays at its cap, then
\* by one request placed in the reconnect notifier, after which connect
\* returns; none of these steps changes the registry; the connect routine is
\* never held at its request by a full notifier that only its own goroutine
\* empties; and the watchdog that takes a request sets the state to
\* waiting-to-reconnect.
C23_FailedDialSchedulesOneReconnect ==
    /\ [](pc[Watchdog] = "c_notify" => (notifierLen < NotifierCap \/ notifierClosed))
    /\ [][/\ \A p \in Connectors :
                /\ (pc[p] = "dial" /\ pc'[p] = "c_sendErr") =>
                        UNCHANGED <<subscriptions, failedReconnects, notifierLen>>
                /\ (pc[p] = "c_sendErr" /\ pc'[p] # "c_sendErr") =>
                        /\ pc'[p] = "c_notify"
                        /\ \/ failedReconnects' = failedReconnects + 1
                           \/ failedReconnects' = failedReconnects
                                /\ failedReconnects > FailedReconnectsLimit
                        /\ UNCHANGED <<subscriptions, notifierLen>>
                /\ (pc[p] = "c_notify" /\ pc'[p] # "c_notify") =>
                        /\ notifierLen' = notifierLen + 1
                        /\ pc'[p] \in {"idle", "recv"}
                        /\ UNCHANGED <<subscriptions, failedReconnects>>
          /\ (pc[Watchdog] = "recv" /\ pc'[Watchdog] = "sleep") =>
                state' = State_waiting_to_reconnect
         ]_vars


\* C24: a successfully read payload has one outcome.  With the
\* unknown-instrument marker the loop goes to emit ErrUnknownISIN, whether or
\* not the invalid-request marker is there too; with the invalid-request
\* marker only, ErrInvalidRequest; with neither it goes to the tap, to the
\* update sink or to emit the decode error.  Having emitted an error the loop
\* is back at its top, with no update sent; after the tap it sends the update
\* if the payload decodes and else emits the decode error; having sent the
\* update it is back at its top, with no error emitted.
C24_OneOutcomePerPayload ==
    [][\A i \in Conns :
        /\ (lpc[i] = "read" /\ lpc'[i] # "read" /\ connStatus[lconn[i]] = "open") =>
            /\ lval'[i].unknown =>
                    (lpc'[i] = "sendMsgErr" /\ lval'[i].err = ErrUnknownISIN)
            /\ (~lval'[i].unknown /\ lval'[i].invalid) =>
                    (lpc'[i] = "sendMsgErr" /\ lval'[i].err = ErrInvalidRequest)
            /\ (~lval'[i].unknown /\ ~lval'[i].invalid) =>
                    \/ lpc'[i] = "sendRaw" /\ rawMessages
                    \/ lpc'[i] = "sendUpdate" /\ ~rawMessages
                    \/ lpc'[i] = "sendMsgErr" /\ lval'[i].err = DecodeError
                            /\ ~rawMessages
        /\ (lpc[i] = "sendMsgErr" /\ lpc'[i] # "sendMsgErr") => lpc'[i] = "loop"
        /\ (lpc[i] = "sendRaw" /\ lpc'[i] # "sendRaw") =>
            IF lval[i].wellFormed
            THEN lpc'[i] = "sendUpdate"
            ELSE lpc'[i] = "sendMsgErr" /\ lval'[i].err = DecodeError
        /\ (lpc[i] = "sendUpdate" /\ lpc'[i] # "sendUpdate") => lpc'[i] = "loop"
      ]_vars

\* C24 witness: a payload with both markers was read and the loop is about
\* to hand ErrUnknownISIN to a receiving consumer.
C24_Witness ==
    \E i \in Conns : /\ lpc[i] = "sendMsgErr"
                      /\ lval[i].unknown
                      /\ lval[i].invalid
                      /\ lval[i].err = ErrUnknownISIN
                      /\ consumer


\* C25: the error a listen loop is about to emit for a read failure is
\* ErrConnectionClosed exactly when the failure is a close error with code
\* GoingAway, NormalClosure or AbnormalClosure, and else the error value the
\* read returned; having emitted it the loop emits nothing more for it.
C25_ReadErrorClassification ==
    /\ [](\A i \in Conns : lpc[i] = "sendErr" =>
            IF lval[i].close /\ lval[i].code \in {CloseGoingAway, CloseNormalClosure,
                                                  CloseAbnormalClosure}
            THEN lval[i].err = ErrConnectionClosed
            ELSE lval[i].err = TransportError)
    /\ [][\A i \in Conns : (lpc[i] = "sendErr" /\ lpc'[i] # "sendErr") =>
            (lpc'[i] = "checkState" /\ lval'[i] = NoVal)]_vars

\* C25 witness: a read failed with an abnormal closure and the loop is about
\* to emit ErrConnectionClosed.
C25_Witness ==
    \E i \in Conns : /\ lpc[i] = "sendErr"
                      /\ lval[i].close
                      /\ lval[i].code = CloseAbnormalClosure
                      /\ lval[i].err = ErrConnectionClosed


\* C26: in the plain stream processData, once false after the constructor
\* returned, stays false; a listen loop that has emitted the error of a read
\* failure is at the top of its loop with processData false; a loop at the
\* top of its loop or in a read while processData is false goes nowhere but
\* into the read and from there to its end, so it writes to no sink; and
\* it does reach its end.
C26_PlainStreamStops ==
    /\ [][/\ (result # "" /\ ~processData) => ~processData'
          /\ \A i \in Conns :
                /\ (lpc[i] = "sendErr" /\ lpc'[i] # "sendErr") =>
                        (lpc'[i] = "loop" /\ ~processData')
                /\ (lpc[i] = "loop" /\ ~processData /\ lpc'[i] # "loop") =>
                        lpc'[i] = "read"
                /\ (lpc[i] = "read" /\ ~processData /\ lpc'[i] # "read") =>
                        lpc'[i] = "done"
         ]_vars
    /\ \A i \in Conns :
            (lpc[i] \in {"loop", "read"} /\ ~processData) ~> (lpc[i] = "done")

\* C26 witness: the connection dropped without a Disconnect() and the listen
\* loop has ended.
C26_Witness ==
    \E i \in Conns : /\ lpc[i] = "done"
                      /\ ~discDone
                      /\ connStatus[lconn[i]] = "dropped"


\* C27: whenever a listen loop or a connect routine is at its send into the
\* reconnect notifier, the notifier is empty.
C27_NotifierEmptyAtEverySend ==
    ((\E i \in Conns : lpc[i] = "notify") \/ (\E p \in Connectors : pc[p] = "c_notify"))
        => notifierLen = 0


\* C28: no listen loop and no connect routine sends into the reconnect
\* notifier after Disconnect() has closed it.
C28_NoSendOnClosedNotifier == panicked # "send on closed channel"


\* C29: an id gets no second subscribe message on a connection without an
\* Unsubscribe between: while the replay on a freshly dialled connection has
\* sent the subscribe message of an id, no Subscribe call for that id is
\* about to write its own subscribe message on that connection.
C29_OneSubscribePerConnection ==
    \A p \in Connectors :
        (pc[p] = "c_replay" /\ pc[Caller] = "s_send") => arg \notin replayed[p]


\* C30: at most one connection is open at any time, and a dial succeeds, with
\* its new connection and new listen loop, only when every listen loop
\* started before has terminated.
C30_OneConnectionOneListenLoop ==
    /\ [](Cardinality({c \in Conns : connStatus[c] = "open"}) <= 1)
    /\ [][(\E p \in Connectors : pc[p] = "dial" /\ pc'[p] = "c_replay") =>
            \A i \in Conns : lpc[i] \in {"unborn", "done"}]_vars


\* C31: the constructor returns whether or not a consumer is receiving: when
\* its first dial has failed it is never at its send into the error sink
\* with no consumer receiving, where it stays until a consumer receives,
\* which in the README example begins only after the constructor returned.
C31_ConstructorAlwaysReturns == pc[Caller] = "c_sendErr" => consumer

====
